---- MODULE Spec2Model ----
(***************************************************************************)
(* A model of package jsonlog (logger.go): a Logger that appends JSON      *)
(* lines to <dir>/<name>.log through a lumberjack sink, CompressLogFile     *)
(* that gzips that file to <dir>/<name>.log.gz, and ReadCompressedLogs /    *)
(* ReadCompressedLogsFiltered with the FilterByLevel and FilterByTimeRange  *)
(* predicates.                                                              *)
(*                                                                          *)
(* Files are sequences of chunks.  A chunk is what one write system call    *)
(* puts into the file: the first or the second half of an encoded record    *)
(* ("head", "tail"), or a whole line that some earlier process left there.  *)
(***************************************************************************)
EXTENDS Integers, Sequences, FiniteSets, TLC

VARIABLES
    file,       \* the log file at Logger.filePath: [exists, data]
    gz,         \* the archive at filePath + ".gz": [exists, hdr, payload, trl]
    console,    \* Config.EnableConsoleOutput
    ljOpen,     \* lumberjack.Logger.file # nil
    ljMu,       \* holder of lumberjack.Logger.mu, or "free"
    mu,         \* holder of Logger.mu, or "free"
    wpc,        \* writer goroutine -> position inside a logging call
    wcnt,       \* writer goroutine -> logging calls it has completed
    wbuf,       \* writer goroutine -> the record zap encoded for it
    cpc,        \* caller goroutine -> position inside Close / CompressLogFile
    coff,       \* caller goroutine -> read offset of its source handle
    cret,       \* caller goroutine -> outcome of its last call
    rpc,        \* reader: position inside ReadCompressedLogs[Filtered]
    rmode,      \* reader: "all" (ReadCompressedLogs) or "filtered"
    dec,        \* reader: the json.Decoder: [buf, scanp, err]
    logs,       \* reader: the slice ReadCompressedLogs builds
    rret,       \* reader: outcome of ReadCompressedLogs
    flt,        \* reader: the FilterFunc passed to ReadCompressedLogsFiltered
    fi,         \* reader: index of the filter loop
    filtered,   \* reader: the slice ReadCompressedLogsFiltered builds
    evals,      \* reader: number of calls of the FilterFunc in this call
    logPath,    \* Config.LogPath
    rotsize,    \* Config.RotationSize
    dir,        \* the directory Config.LogPath names, as the file system has it
    nret,       \* outcome of the NewLogger call
    proc,       \* the host process: "running", "exited" (os.Exit), "crashed"
    errout,     \* lines zap has written to its ErrorOutput (os.Stderr)
    warg,       \* writer goroutine -> the entry point and level of its call
    wlen,       \* writer goroutine -> len(p) of the bytes zap encoded for it
    werr,       \* writer goroutine -> the error lumberjack's Write gave zap
    wret,       \* writer goroutine -> what its last logging call returned
    fsize,      \* bytes in the log file (lumberjack.Logger.size while open)
    backups,    \* the backup files rotation left, oldest first
    mill        \* lumberjack's millCh holds a request for a cleanup pass

vars == <<file, gz, console, ljOpen, ljMu, mu, wpc, wcnt, wbuf, cpc, coff, cret,
          rpc, rmode, dec, logs, rret, flt, fi, filtered, evals,
          logPath, rotsize, dir, nret, proc, errout, warg, wlen, werr, wret,
          fsize, backups, mill>>

sinkVars   == <<fsize, backups, mill>>
fsVars     == <<file, gz, sinkVars>>
cfgVars    == <<console, logPath, rotsize, dir, nret>>
hostVars   == <<cfgVars, proc, errout>>
callVars   == <<warg, wlen, werr, wret>>
writerVars == <<wpc, wcnt, wbuf, callVars>>
callerVars == <<cpc, coff, cret>>
readerVars == <<rpc, rmode, dec, logs, rret, flt, fi, filtered, evals>>

(***************************************************************************)
(* Bounds.                                                                  *)
(***************************************************************************)
MaxRecords == 3     \* records the writer goroutines log between them
MaxLines   == 3     \* lines a source file holds before the Logger is made
MaxLogs    == 2     \* records of an archive read through a filter
MaxTime    == 2     \* instants 0..MaxTime of the time-range filter
MaxLarge   == 5     \* entries with a large message a goroutine logs

Writers == {"w1", "w2"}
Callers == {"c1", "c2"}

(***************************************************************************)
(* JSON values and records (map[string]interface{}).                        *)
(***************************************************************************)
Absent   == [t |-> "absent", v |-> ""]
Str(s)   == [t |-> "string", v |-> s]
Num(s)   == [t |-> "number", v |-> s]

\* A timestamp text: wall clock reading, number of fractional digits, the
\* form of its zone suffix and the zone offset.
NoTs == [t |-> "absent", wall |-> 0, frac |-> 0, form |-> "none", off |-> 0]
Ts(wall, frac, form, off) ==
    [t |-> "string", wall |-> wall, frac |-> frac, form |-> form, off |-> off]

\* The nil map that Decode leaves for the JSON literal null.
NilMap == [nil |-> TRUE, id |-> <<"", 0>>, level |-> Absent, timestamp |-> NoTs]
Rec(id, level, ts) == [nil |-> FALSE, id |-> id, level |-> level, timestamp |-> ts]

Chunk(k, r) == [k |-> k, rec |-> r]
ObjLine(r)  == Chunk("obj", r)
RawLine(k)  == Chunk(k, NilMap)

NoFile      == [exists |-> FALSE, data |-> <<>>]
FileOf(d)   == [exists |-> TRUE, data |-> d]
NoArchive   == [exists |-> FALSE, hdr |-> FALSE, payload |-> <<>>, trl |-> FALSE]
EmptyGz     == [exists |-> TRUE, hdr |-> FALSE, payload |-> <<>>, trl |-> FALSE]

NoDec == [buf |-> <<>>, scanp |-> 0, err |-> "none"]
NoFilter == [kind |-> "none", level |-> "", start |-> 0, end |-> 0]
\* The outcome of a call: the operation, its error ("none" for nil) and the
\* sentinel error that errors.Is finds in the error's chain.
NoRet == [op |-> "none", err |-> "none", is |-> "none"]
Ret(op, err) == [op |-> op, err |-> err, is |-> "none"]

\* os.Stat(path) / os.Open(path): a *PathError, which is fs.ErrNotExist when
\* nothing is at the path.
OsErr(f) == IF f.exists THEN "none" ELSE "ErrNotExist"

\* fmt.Errorf("<err>: %w", cause): the new error wraps its cause
\* (ErrorfV: the verb %v, which keeps only the text).
ErrorfV(op, err, cause) == [op |-> op, err |-> err, is |-> "none"]
Errorf(op, err, cause) == [op |-> op, err |-> err, is |-> cause]
NoArg == [fn |-> "none", level |-> ""]

(***************************************************************************)
(* The write path: zap encodes the entry outside any lock and hands the     *)
(* bytes to lumberjack.Logger.Write, which holds lumberjack's own mutex     *)
(* while it opens the file (on the first write, or the first after Close)   *)
(* and writes the bytes.                                                    *)
(***************************************************************************)
\* The level each writer goroutine logs at (Info for one, Error for the other).
LoggedLevels(w) == IF w = "w1" THEN {"info"} ELSE {"error"}

\* zapcore.ISO8601TimeEncoder: milliseconds and a zone offset without colon.
ZapTime == Ts(1, 3, "nocolon", 1)

\* zapcore.NewJSONEncoder(encoderConfig).EncodeEntry: one JSON object per entry.
EncodeEntry(w, n, lvl) == Rec(<<w, n>>, Str(lvl), ZapTime)

\* The methods are called on the Logger NewLogger returned, and a goroutine
\* takes steps while the process runs.
HasLogger == nret = Ret("NewLogger", "none")
Alive == HasLogger /\ proc = "running"

\* lumberjack.Logger.mu, taken by Write and Close (LjMuNoLock: a sink that
\* takes no lock).
LjMuNoLock == TRUE
LjMuFree == ljMu = "free"

\* lumberjack openExistingOrNew: an existing file is opened for append, a
\* missing one is created empty.
OpenExistingOrNew(f) == IF f.exists THEN f ELSE FileOf(<<>>)

AppendChunk(f, c) == FileOf(Append(f.data, c))

\* lumberjack.Logger{MaxSize: 100, MaxBackups: 3, MaxAge: 28}: megabytes,
\* files, days.  Config.RotationSize is not read.
FileLogger == [MaxSize |-> 100, MaxBackups |-> 3, MaxAge |-> 28]
Megabyte == 1024 * 1024
\* lumberjack max(): the size in bytes no write may take the file beyond.
Max == FileLogger.MaxSize * Megabyte

\* len(p) of an encoded entry: an entry with a short message, and one with
\* a message of 60 MB.
EntryLen == [small |-> 200, large |-> 60 * Megabyte]

\* lumberjack rotate(): the file is closed and renamed to a backup whose name
\* carries the time, a new empty file is opened at the same path, and a
\* cleanup pass is requested.
LjRotate(s) ==
    [file |-> FileOf(<<>>), backups |-> Append(s.backups, s.file.data),
     size |-> 0, mill |-> TRUE]

\* lumberjack Write(p) up to the write itself: with no open file,
\* openExistingOrNew(len(p)) rotates an existing file that the write would
\* fill (>=); then the open file is rotated if the write would overfill it (>).
LjOpenForWrite(s, open, n) ==
    LET t == IF open THEN s
             ELSE IF s.file.exists /\ s.size + n >= Max THEN LjRotate(s)
             ELSE [s EXCEPT !.file = OpenExistingOrNew(s.file)]
    IN IF t.size + n > Max THEN LjRotate(t) ELSE t

\* os.OpenFile in openExistingOrNew / openNew can succeed: the file is
\* open already, or is there, or can be created in the directory.
CanOpen == ljOpen \/ file.exists \/ dir = "writable"

\* zap CheckedEntry.Write after the cores have written: an entry at Fatal
\* ends the process, one at Panic panics, any other returns to the caller
\* (CheckWriteNoop: no entry escalates).
CheckWriteNoop(lvl) == "idle"
CheckWriteAction(lvl) ==
    CASE lvl = "fatal" -> "exit"
      [] lvl = "panic" -> "panic"
      [] OTHER         -> "idle"

\* What a logging method hands its caller: the methods have no result.
Void == Ret("Log", "none")
Returned(w, lvl) == IF CheckWriteAction(lvl) = "idle" THEN Void ELSE wret[w]

\* Logging calls begun so far, finished or not.
InCall(w) == IF wpc[w] \in {"encoded", "head", "tail"} THEN 1 ELSE 0
Issued == wcnt["w1"] + InCall("w1") + wcnt["w2"] + InCall("w2")

\* Debug / Info / Warn / Error: the entry is encoded into a private buffer.
Log(w) ==
    /\ Alive
    /\ wpc[w] = "idle"
    /\ Issued < MaxRecords
    /\ \E lvl \in LoggedLevels(w) :
          wbuf' = [wbuf EXCEPT ![w] = EncodeEntry(w, wcnt[w] + 1, lvl)]
    /\ wlen' = [wlen EXCEPT ![w] = EntryLen.small]
    /\ werr' = [werr EXCEPT ![w] = "none"]
    /\ wpc' = [wpc EXCEPT ![w] = "encoded"]
    /\ UNCHANGED <<fsVars, hostVars, ljOpen, ljMu, mu, wcnt, warg, wret,
                   callerVars, readerVars>>

\* lumberjack Write: l.mu.Lock(); l.file == nil => openExistingOrNew; a
\* write that would overfill the file => rotate.
LjLockOpen(w) ==
    /\ Alive
    /\ wpc[w] = "encoded"
    /\ LjMuFree
    /\ CanOpen
    /\ ljMu' = w
    /\ ljOpen' = TRUE
    /\ LET s == LjOpenForWrite([file |-> file, backups |-> backups,
                                size |-> fsize, mill |-> mill], ljOpen, wlen[w])
       IN /\ file' = s.file
          /\ backups' = s.backups
          /\ fsize' = s.size
          /\ mill' = s.mill
    /\ wpc' = [wpc EXCEPT ![w] = "head"]
    /\ UNCHANGED <<gz, hostVars, mu, wcnt, wbuf, callVars, callerVars, readerVars>>

\* l.file.Write(p): the first part of the bytes reaches the file.
LjWriteHead(w) ==
    /\ Alive
    /\ wpc[w] = "head"
    /\ file' = AppendChunk(file, Chunk("head", wbuf[w]))
    /\ wpc' = [wpc EXCEPT ![w] = "tail"]
    /\ UNCHANGED <<gz, sinkVars, hostVars, ljOpen, ljMu, mu, wcnt, wbuf, callVars,
                   callerVars, readerVars>>

\* l.file.Write(p): the rest of the bytes; l.size += n; the deferred
\* l.mu.Unlock(); then zap returns, ends the process or panics.
LjWriteTail(w) ==
    /\ Alive
    /\ wpc[w] = "tail"
    /\ file' = AppendChunk(file, Chunk("tail", wbuf[w]))
    /\ fsize' = fsize + wlen[w]
    /\ ljMu' = "free"
    /\ wcnt' = [wcnt EXCEPT ![w] = @ + 1]
    /\ wpc' = [wpc EXCEPT ![w] = CheckWriteAction(wbuf[w].level.v)]
    /\ wret' = [wret EXCEPT ![w] = Returned(w, wbuf[w].level.v)]
    /\ UNCHANGED <<gz, backups, mill, hostVars, ljOpen, mu, wbuf, warg, wlen, werr,
                   callerVars, readerVars>>

\* lumberjack Write when the file cannot be opened: the error goes back to
\* zap, which prints it on its ErrorOutput; the logging method has no result
\* to carry it.
LjOpenFail(w) ==
    /\ Alive
    /\ wpc[w] = "encoded"
    /\ LjMuFree
    /\ ~CanOpen
    /\ werr' = [werr EXCEPT ![w] = "open"]
    /\ errout' = errout + 1
    /\ wcnt' = [wcnt EXCEPT ![w] = @ + 1]
    /\ wpc' = [wpc EXCEPT ![w] = CheckWriteAction(wbuf[w].level.v)]
    /\ wret' = [wret EXCEPT ![w] = Returned(w, wbuf[w].level.v)]
    /\ UNCHANGED <<fsVars, cfgVars, proc, ljOpen, ljMu, mu, wbuf, warg, wlen,
                   callerVars, readerVars>>

\* Info with a message of 60 MB.
LogLarge(w) ==
    /\ Alive
    /\ wpc[w] = "idle"
    /\ wcnt[w] < MaxLarge
    /\ wbuf' = [wbuf EXCEPT ![w] = EncodeEntry(w, wcnt[w] + 1, "info")]
    /\ wlen' = [wlen EXCEPT ![w] = EntryLen.large]
    /\ werr' = [werr EXCEPT ![w] = "none"]
    /\ wpc' = [wpc EXCEPT ![w] = "encoded"]
    /\ UNCHANGED <<fsVars, hostVars, ljOpen, ljMu, mu, wcnt, warg, wret,
                   callerVars, readerVars>>

\* The newest n of the backups.
Newest(bs, n) == IF Len(bs) <= n THEN bs ELSE SubSeq(bs, Len(bs) - n + 1, Len(bs))

\* lumberjack millRunOnce, in the goroutine that serves millCh: of the
\* backups, the newest MaxBackups are kept, and of those the ones that are
\* not older than MaxAge days (the aged ones are the oldest).
MillRunOnce ==
    /\ proc = "running"
    /\ mill
    /\ mill' = FALSE
    /\ \E aged \in 0..FileLogger.MaxBackups :
          backups' = Newest(Newest(backups, FileLogger.MaxBackups),
                            FileLogger.MaxBackups - aged)
    /\ UNCHANGED <<file, gz, fsize, hostVars, ljOpen, ljMu, mu, writerVars,
                   callerVars, readerVars>>

\* The goroutine issues no further logging call.
Stop(w) ==
    /\ Alive
    /\ wpc[w] = "idle"
    /\ wpc' = [wpc EXCEPT ![w] = "stopped"]
    /\ UNCHANGED <<fsVars, hostVars, ljOpen, ljMu, mu, wcnt, wbuf, callVars,
                   callerVars, readerVars>>

(***************************************************************************)
(* LogWithLevel, Fatal and Panic.                                           *)
(***************************************************************************)
\* The LogLevel constants.
Levels == {"debug", "info", "warn", "error", "fatal", "panic"}

\* The switch of LogWithLevel: the method it calls for a level; the cases
\* compare the strings as they are (LevelSwitchFold: letter case ignored).
LevelSwitchFold(level) ==
    CASE level = "debug"                     -> "Debug"
      [] level \in {"info", "INFO"}          -> "Info"
      [] level = "warn"                      -> "Warn"
      [] level \in {"error", "Error"}        -> "Error"
      [] level = "fatal"                     -> "Fatal"
      [] level = "panic"                     -> "Panic"
      [] OTHER                               -> "Info"
LevelSwitch(level) ==
    CASE level = "debug" -> "Debug"
      [] level = "info"  -> "Info"
      [] level = "warn"  -> "Warn"
      [] level = "error" -> "Error"
      [] level = "fatal" -> "Fatal"
      [] level = "panic" -> "Panic"
      [] OTHER           -> "Info"

\* The zapcore.Level the methods of zap.Logger log at.
ZapLevel(method) ==
    CASE method = "Debug" -> -1
      [] method = "Info"  -> 0
      [] method = "Warn"  -> 1
      [] method = "Error" -> 2
      [] method = "Panic" -> 4
      [] method = "Fatal" -> 5

\* zapcore.LowercaseLevelEncoder.
LowercaseLevelEncoder(l) ==
    CASE l = -1 -> "debug"
      [] l = 0  -> "info"
      [] l = 1  -> "warn"
      [] l = 2  -> "error"
      [] l = 3  -> "dpanic"
      [] l = 4  -> "panic"
      [] l = 5  -> "fatal"

\* A call of the entry point fn that ends in zapLogger.<method>: the entry is
\* encoded into a private buffer.
CallMethod(w, fn, level, method) ==
    /\ Alive
    /\ wpc[w] = "idle"
    /\ Issued < MaxRecords
    /\ warg' = [warg EXCEPT ![w] = [fn |-> fn, level |-> level]]
    /\ wbuf' = [wbuf EXCEPT ![w] =
                   EncodeEntry(w, wcnt[w] + 1, LowercaseLevelEncoder(ZapLevel(method)))]
    /\ wlen' = [wlen EXCEPT ![w] = EntryLen.small]
    /\ werr' = [werr EXCEPT ![w] = "none"]
    /\ wpc' = [wpc EXCEPT ![w] = "encoded"]
    /\ UNCHANGED <<fsVars, hostVars, ljOpen, ljMu, mu, wcnt, wret, callerVars,
                   readerVars>>

\* The values of level the callers pass: the constants, and others.
LevelArgs == Levels \cup {"", "INFO", "Error", "trace"}

LogWithLevel(w) ==
    \E level \in LevelArgs : CallMethod(w, "LogWithLevel", level, LevelSwitch(level))
Fatal(w) == CallMethod(w, "Fatal", "", "Fatal")
Panic(w) == CallMethod(w, "Panic", "", "Panic")

\* zap, after a Fatal entry is written: os.Exit(1).
OsExit(w) ==
    /\ Alive
    /\ wpc[w] = "exit"
    /\ proc' = "exited"
    /\ UNCHANGED <<fsVars, cfgVars, errout, ljOpen, ljMu, mu, writerVars,
                   callerVars, readerVars>>

\* zap, after a Panic entry is written: panic(msg).  The goroutine unwinds;
\* the process goes on only if a deferred function of the caller recovers.
GoPanic(w) ==
    /\ Alive
    /\ wpc[w] = "panic"
    /\ wpc' = [wpc EXCEPT ![w] = "panicked"]
    /\ \E recovered \in BOOLEAN :
          proc' = IF recovered THEN proc ELSE "crashed"
    /\ UNCHANGED <<fsVars, cfgVars, errout, ljOpen, ljMu, mu, wcnt, wbuf, callVars,
                   callerVars, readerVars>>

(***************************************************************************)
(* Close.                                                                   *)
(***************************************************************************)
\* zapLogger.Sync(): the file core's Sync is a no-op (lumberjack has no Sync);
\* the console core syncs os.Stdout, which can fail.
SyncOutcomes(con) == IF con THEN {"ok", "benign", "error"} ELSE {"ok"}

\* Logger.mu, taken by Close and CompressLogFile for their whole body
\* (MuNoLock: methods that take no lock).
MuNoLock == TRUE
MuFree == mu = "free"

\* lumberjack close(): with no open file there is nothing to do and nil is
\* returned; else what file.Close() returns (LjCloseOnce: a sink that
\* reports a close of what is closed already, as os.File does).
LjCloseOnce(open, fault) == IF ~open THEN "closed" ELSE IF fault THEN "close" ELSE "none"
LjClose(open, fault) == IF fault /\ open THEN "close" ELSE "none"

\* l.mu.Lock(); zapLogger.Sync(); an error other than the benign one returns.
CloseSync(c) ==
    /\ cpc[c] = "idle"
    /\ MuFree
    /\ \E s \in SyncOutcomes(console) :
          IF s = "error"
          THEN /\ cret' = [cret EXCEPT ![c] = Ret("Close", "sync")]
               /\ UNCHANGED <<mu, cpc>>
          ELSE /\ mu' = c
               /\ cpc' = [cpc EXCEPT ![c] = "close_file"]
               /\ cret' = [cret EXCEPT ![c] = NoRet]
    /\ UNCHANGED <<fsVars, hostVars, ljOpen, ljMu, writerVars, coff, readerVars>>

\* l.fileLogger.Close(): under lumberjack's mutex the handle is closed and
\* forgotten, whatever file.Close() returns; then the deferred l.mu.Unlock().
CloseFile(c) ==
    /\ cpc[c] = "close_file"
    /\ LjMuFree
    /\ ljOpen' = FALSE
    /\ \E fault \in BOOLEAN :
          cret' = [cret EXCEPT ![c] =
                      Ret("Close", LjClose(ljOpen, fault))]
    /\ mu' = "free"
    /\ cpc' = [cpc EXCEPT ![c] = "idle"]
    /\ UNCHANGED <<fsVars, hostVars, ljMu, writerVars, coff, readerVars>>

(***************************************************************************)
(* CompressLogFile.                                                         *)
(***************************************************************************)
\* The files os.Create(compressedPath) leaves: compressedPath is truncated,
\* the source is not touched (CreateTruncatesSource: a create on l.filePath;
\* CreateAppends: an open that keeps what compressedPath holds).
CreateTruncatesSource(f, g) == [file |-> FileOf(<<>>), gz |-> g]
CreateAppends(f, g) == [file |-> f, gz |-> [g EXCEPT !.exists = TRUE]]
CreateArchive(f, g) == [file |-> f, gz |-> EmptyGz]

\* gzip.Writer.Write: the header goes out with the first write.
GzWrite(g, data) == [g EXCEPT !.hdr = TRUE, !.payload = @ \o data]
\* gzip.Writer.Flush: writes the header if no write did.
GzFlush(g) == [g EXCEPT !.hdr = TRUE]
\* the deferred gzip.Writer.Close: header if needed, final block and trailer.
GzClose(g) == [g EXCEPT !.hdr = TRUE, !.trl = TRUE]

\* l.mu.Lock(); os.Stat(l.filePath).
CompressStat(c) ==
    /\ cpc[c] = "idle"
    /\ MuFree
    /\ IF OsErr(file) = "none"
       THEN /\ mu' = c
            /\ cpc' = [cpc EXCEPT ![c] = "open"]
            /\ cret' = [cret EXCEPT ![c] = NoRet]
       ELSE /\ cret' = [cret EXCEPT ![c] = Errorf("Compress", "not_found", OsErr(file))]
            /\ UNCHANGED <<mu, cpc>>
    /\ UNCHANGED <<fsVars, hostVars, ljOpen, ljMu, writerVars, coff, readerVars>>

\* os.Open(l.filePath).
CompressOpen(c) ==
    /\ cpc[c] = "open"
    /\ \E fault \in BOOLEAN :
          IF fault
          THEN /\ cret' = [cret EXCEPT ![c] = Ret("Compress", "open")]
               /\ mu' = "free"
               /\ cpc' = [cpc EXCEPT ![c] = "idle"]
               /\ UNCHANGED coff
          ELSE /\ coff' = [coff EXCEPT ![c] = 0]
               /\ cpc' = [cpc EXCEPT ![c] = "create"]
               /\ UNCHANGED <<mu, cret>>
    /\ UNCHANGED <<fsVars, hostVars, ljOpen, ljMu, writerVars, readerVars>>

\* os.Create(compressedPath); gzip.NewWriter(destination).
CompressCreate(c) ==
    /\ cpc[c] = "create"
    /\ \E fault \in BOOLEAN :
          IF fault
          THEN /\ cret' = [cret EXCEPT ![c] = Ret("Compress", "create")]
               /\ mu' = "free"
               /\ cpc' = [cpc EXCEPT ![c] = "idle"]
               /\ UNCHANGED <<file, gz>>
          ELSE /\ file' = CreateArchive(file, gz).file
               /\ gz' = CreateArchive(file, gz).gz
               /\ cpc' = [cpc EXCEPT ![c] = "copy"]
               /\ UNCHANGED <<mu, cret>>
    /\ UNCHANGED <<sinkVars, hostVars, ljOpen, ljMu, writerVars, coff, readerVars>>

\* io.Copy(gzipWriter, source): one read of what the source holds beyond the
\* handle's offset, written to the gzip stream; a failed read ends the call
\* (the deferred gzipWriter.Close still completes the archive).
CompressCopy(c) ==
    /\ cpc[c] = "copy"
    /\ coff[c] < Len(file.data)
    /\ \E fault \in BOOLEAN :
          IF fault
          THEN /\ cret' = [cret EXCEPT ![c] = Ret("Compress", "copy")]
               /\ gz' = GzClose(gz)
               /\ mu' = "free"
               /\ cpc' = [cpc EXCEPT ![c] = "idle"]
               /\ UNCHANGED coff
          ELSE /\ gz' = GzWrite(gz, SubSeq(file.data, coff[c] + 1, Len(file.data)))
               /\ coff' = [coff EXCEPT ![c] = Len(file.data)]
               /\ UNCHANGED <<mu, cpc, cret>>
    /\ UNCHANGED <<file, sinkVars, hostVars, ljOpen, ljMu, writerVars, readerVars>>

\* io.Copy reads EOF; gzipWriter.Flush(); return nil, or the flush error;
\* the deferred calls close the gzip stream (unless the stream is in error),
\* both files, and unlock l.mu.
CompressFinish(c) ==
    /\ cpc[c] = "copy"
    /\ coff[c] = Len(file.data)
    /\ \E fault \in BOOLEAN :
          IF fault
          THEN /\ cret' = [cret EXCEPT ![c] = Ret("Compress", "flush")]
               /\ gz' = gz
          ELSE /\ cret' = [cret EXCEPT ![c] = Ret("Compress", "none")]
               /\ gz' = GzClose(GzFlush(gz))
    /\ mu' = "free"
    /\ cpc' = [cpc EXCEPT ![c] = "idle"]
    /\ UNCHANGED <<file, sinkVars, hostVars, ljOpen, ljMu, writerVars, coff, readerVars>>

(***************************************************************************)
(* ReadCompressedLogs: os.Open, gzip.NewReader, and the loop                *)
(*     for decoder.More() { if Decode fails { continue }; append }          *)
(* over an encoding/json Decoder.                                           *)
(***************************************************************************)
\* The first non-space byte of a chunk.
FirstByte(c) ==
    CASE c.k \in {"obj", "head", "trunc"} -> "{"
      [] c.k = "array"                    -> "["
      [] c.k = "null"                     -> "n"
      [] c.k = "close"                    -> "}"
      [] c.k = "tail"                     -> ","
      [] OTHER                            -> "x"

\* Decoder.More: peek skips white space and reports whether a byte other
\* than ']' and '}' follows; it does not look at the decoder's saved error.
More(d) ==
    /\ d.scanp < Len(d.buf)
    /\ FirstByte(d.buf[d.scanp + 1]) \notin {"]", "}"}

\* Decoder.Decode into a map[string]interface{}.  A saved error is returned
\* at once.  readValue scans one value: a syntax error or an unexpected end
\* of input is saved in the decoder and consumes nothing; a complete value
\* is consumed, and unmarshalling it into the map fails (unsaved) for
\* anything but an object or null.
Decode(d) ==
    IF d.err # "none" THEN [dec |-> d, err |-> d.err, val |-> NilMap]
    ELSE IF d.scanp >= Len(d.buf)
    THEN [dec |-> [d EXCEPT !.err = "eof"], err |-> "eof", val |-> NilMap]
    ELSE LET c    == d.buf[d.scanp + 1]
             last == d.scanp + 1 = Len(d.buf)
             adv(n) == [d EXCEPT !.scanp = @ + n]
         IN CASE c.k = "obj"   -> [dec |-> adv(1), err |-> "none", val |-> c.rec]
              [] c.k = "null"  -> [dec |-> adv(1), err |-> "none", val |-> NilMap]
              [] c.k = "array" -> [dec |-> adv(1), err |-> "type", val |-> NilMap]
              [] c.k = "head"  ->
                    IF last
                    THEN [dec |-> [d EXCEPT !.err = "unexpected_eof"],
                          err |-> "unexpected_eof", val |-> NilMap]
                    ELSE IF d.buf[d.scanp + 2] = Chunk("tail", c.rec)
                    THEN [dec |-> adv(2), err |-> "none", val |-> c.rec]
                    ELSE [dec |-> [d EXCEPT !.err = "syntax"],
                          err |-> "syntax", val |-> NilMap]
              [] c.k = "trunc" /\ last ->
                    [dec |-> [d EXCEPT !.err = "unexpected_eof"],
                     err |-> "unexpected_eof", val |-> NilMap]
              [] OTHER ->
                    [dec |-> [d EXCEPT !.err = "syntax"],
                     err |-> "syntax", val |-> NilMap]

(***************************************************************************)
(* The filters.                                                             *)
(***************************************************************************)
\* strings.ToLower, on the level names of the model.
Lower(s) ==
    CASE s = "ERROR" -> "error"
      [] s = "INFO"  -> "info"
      [] OTHER       -> s

\* FilterByLevel(level)(log): the key must be there and its value must be
\* the string level (an interface value equals a string only if it holds
\* that string).  FilterByLevelFold: a comparison that ignores letter case.
FilterByLevelFold(level, log) ==
    IF log.level.t # "absent" THEN Lower(log.level.v) = Lower(level) ELSE FALSE
FilterByLevel(level, log) ==
    IF log.level.t # "absent" THEN log.level = Str(level) ELSE FALSE

\* time.Parse(layout, ts) for the three layouts of FilterByTimeRange:
\*   RFC3339Nano                      any number of fractional digits, "Z" or +hh:mm
\*   2006-01-02T15:04:05.000-0700     exactly three digits, +hhmm
\*   2006-01-02T15:04:05.000Z0700     exactly three digits, "Z" or +hhmm
ParseOk(layout, ts) ==
    CASE layout = "RFC3339Nano" -> ts.form \in {"Z", "colon"}
      [] layout = ".000-0700"   -> ts.frac = 3 /\ ts.form = "nocolon"
      [] layout = ".000Z0700"   -> ts.frac = 3 /\ ts.form \in {"Z", "nocolon"}
      [] OTHER                  -> FALSE

\* The instant a parsed text denotes: its wall clock reading less its offset.
ParseTime(ts) == ts.wall - ts.off

Layouts == <<"RFC3339Nano", ".000-0700", ".000Z0700">>

\* t.After(start) && t.Before(end)  (InRangeClosed: bounds included).
InRangeClosed(t, start, end) == t >= start /\ t <= end
InRange(t, start, end) == t > start /\ t < end

\* FilterByTimeRange(start, end)(log): the timestamp must be a string; the
\* layouts are tried in order and the first that parses gives t.
\* (FilterByTimeRangeNoCheck: the parse errors are ignored.)
FilterByTimeRangeNoCheck(start, end, log) ==
    IF log.timestamp.t = "string"
    THEN InRange(ParseTime(log.timestamp), start, end)
    ELSE FALSE
FilterByTimeRange(start, end, log) ==
    IF log.timestamp.t = "string"
    THEN IF \E i \in 1..Len(Layouts) : ParseOk(Layouts[i], log.timestamp)
         THEN InRange(ParseTime(log.timestamp), start, end)
         ELSE FALSE
    ELSE FALSE

LevelFilter(l)    == [kind |-> "level", level |-> l, start |-> 0, end |-> 0]
TimeFilter(s, e)  == [kind |-> "time", level |-> "", start |-> s, end |-> e]

\* filter(log)
ApplyFilter(f, log) ==
    IF f.kind = "level" THEN FilterByLevel(f.level, log)
    ELSE FilterByTimeRange(f.start, f.end, log)

ResetReader ==
    /\ dec' = NoDec /\ logs' = <<>> /\ rret' = NoRet
    /\ fi' = 0 /\ filtered' = <<>> /\ evals' = 0

\* os.Open(filePath); gzip.NewReader(file); json.NewDecoder(gzipReader).
\* The decoder reads what the archive holds when it is opened.
ReadOpen(m, f) ==
    /\ rpc = "idle"
    /\ rmode' = m
    /\ flt' = f
    /\ logs' = <<>> /\ fi' = 0 /\ filtered' = <<>> /\ evals' = 0
    /\ IF OsErr(gz) # "none"
       THEN /\ rret' = Errorf("Read", "open", OsErr(gz))
            /\ rpc' = "done" /\ dec' = NoDec
       ELSE IF ~gz.hdr
       THEN /\ rret' = Ret("Read", "gzip") /\ rpc' = "done" /\ dec' = NoDec
       ELSE /\ rret' = NoRet /\ rpc' = "more"
            /\ dec' = [buf |-> gz.payload, scanp |-> 0, err |-> "none"]
    /\ UNCHANGED <<fsVars, hostVars, ljOpen, ljMu, mu, writerVars, callerVars>>

\* for decoder.More(): the loop goes on, or ReadCompressedLogs returns logs, nil.
ReadMore ==
    /\ rpc = "more"
    /\ IF More(dec)
       THEN /\ rpc' = "decode"
            /\ UNCHANGED rret
       ELSE /\ rret' = Ret("Read", "none")
            /\ rpc' = IF rmode = "filtered" THEN "filter" ELSE "done"
    /\ UNCHANGED <<fsVars, hostVars, ljOpen, ljMu, mu, writerVars, callerVars,
                   rmode, dec, logs, flt, fi, filtered, evals>>

\* decoder.Decode(&logEntry): on an error `continue`, else append.
ReadDecode ==
    /\ rpc = "decode"
    /\ LET r == Decode(dec)
       IN /\ dec' = r.dec
          /\ logs' = IF r.err = "none" THEN Append(logs, r.val) ELSE logs
    /\ rpc' = "more"
    /\ UNCHANGED <<fsVars, hostVars, ljOpen, ljMu, mu, writerVars, callerVars,
                   rmode, rret, flt, fi, filtered, evals>>

\* ReadCompressedLogsFiltered: one round of `for _, log := range logs`
\* (KeepRejected: the condition negated).
KeepRejected(f, log) == ~ApplyFilter(f, log)
Keep(f, log) == ApplyFilter(f, log)

FilterStep ==
    /\ rpc = "filter"
    /\ fi < Len(logs)
    /\ evals' = evals + 1
    /\ filtered' = IF Keep(flt, logs[fi + 1])
                   THEN Append(filtered, logs[fi + 1]) ELSE filtered
    /\ fi' = fi + 1
    /\ UNCHANGED <<fsVars, hostVars, ljOpen, ljMu, mu, writerVars, callerVars,
                   rpc, rmode, dec, logs, rret, flt>>

\* ReadCompressedLogsFiltered returns filtered, nil.
FilterReturn ==
    /\ rpc = "filter"
    /\ fi = Len(logs)
    /\ rpc' = "done"
    /\ UNCHANGED <<fsVars, hostVars, ljOpen, ljMu, mu, writerVars, callerVars,
                   rmode, dec, logs, rret, flt, fi, filtered, evals>>

\* The caller drops the result; a later call starts from nothing.
ReadAgain ==
    /\ rpc = "done"
    /\ rpc' = "idle"
    /\ rmode' = "all" /\ flt' = NoFilter
    /\ ResetReader
    /\ UNCHANGED <<fsVars, hostVars, ljOpen, ljMu, mu, writerVars, callerVars>>

(***************************************************************************)
(* Spec: one Logger, the writer goroutines logging through it, the caller   *)
(* goroutines calling Close and CompressLogFile, and a reader of the        *)
(* archive.  NewLogger opens no file: the directory may already hold a log  *)
(* file from an earlier run.                                                *)
(***************************************************************************)
OldRec == Rec(<<"old", 1>>, Str("info"), ZapTime)

PreContents == {NoFile, FileOf(<<>>), FileOf(<<ObjLine(OldRec)>>)}

\* NewLogger(config): the state it returns the Logger in.
NewLogger ==
    /\ ljOpen = FALSE
    /\ ljMu = "free"
    /\ mu = "free"
    /\ wcnt = [w \in Writers |-> 0]
    /\ wbuf = [w \in Writers |-> NilMap]
    /\ cpc = [c \in Callers |-> "idle"]
    /\ coff = [c \in Callers |-> 0]
    /\ cret = [c \in Callers |-> NoRet]
    /\ proc = "running"
    /\ errout = 0
    /\ warg = [w \in Writers |-> NoArg]
    /\ wlen = [w \in Writers |-> 0]
    /\ werr = [w \in Writers |-> "none"]
    /\ wret = [w \in Writers |-> NoRet]
    /\ fsize = Len(file.data) * EntryLen.small
    /\ backups = <<>>
    /\ mill = FALSE

\* The tests' Config and directory: a temporary directory, no RotationSize.
TestConfig ==
    /\ logPath = "logs"
    /\ rotsize = 0
    /\ dir = "writable"
    /\ nret = Ret("NewLogger", "none")

NoRead ==
    /\ rpc = "idle" /\ rmode = "all" /\ dec = NoDec /\ logs = <<>>
    /\ rret = NoRet /\ flt = NoFilter /\ fi = 0 /\ filtered = <<>> /\ evals = 0

Init ==
    /\ file \in PreContents
    /\ gz = NoArchive
    /\ console \in BOOLEAN
    /\ TestConfig
    /\ NewLogger
    /\ wpc = [w \in Writers |-> "idle"]
    /\ NoRead

AllStopped == \A w \in Writers : wpc[w] = "stopped"

WriterNext ==
    \E w \in Writers :
        Log(w) \/ LjLockOpen(w) \/ LjWriteHead(w) \/ LjWriteTail(w) \/ Stop(w)

Close(c) == CloseSync(c) \/ CloseFile(c)

CompressLogFile(c) ==
    \/ CompressStat(c) \/ CompressOpen(c) \/ CompressCreate(c)
    \/ CompressCopy(c) \/ CompressFinish(c)

\* The archive is read once the goroutines have stopped logging.
ReadAfterLogging == AllStopped /\ ReadOpen("all", NoFilter)

Next ==
    \/ WriterNext
    \/ Close("c1")
    \/ CompressLogFile("c1")
    \/ ReadAfterLogging
    \/ ReadMore
    \/ ReadDecode
    \/ ReadAgain

Spec == Init /\ [][Next]_vars

(***************************************************************************)
(* SpecRead: a Logger made over a log file that an earlier run left, with   *)
(* any lines in it; nothing is logged; the file is compressed and the       *)
(* archive is read.                                                         *)
(***************************************************************************)
RecA == Rec(<<"a", 1>>, Str("info"), ZapTime)
RecB == Rec(<<"b", 1>>, Str("error"), ZapTime)

\* Lines of a source file: two JSON objects, the JSON values null and [..],
\* text that is no JSON, a line that starts with '}', and a record cut short.
LineSet ==
    {ObjLine(RecA), ObjLine(RecB), RawLine("null"), RawLine("array"),
     RawLine("syntax"), RawLine("close"), RawLine("trunc")}

SeqsUpTo(S, n) == UNION {[1..k -> S] : k \in 0..n}

InitRead ==
    /\ file \in {NoFile} \cup {FileOf(d) : d \in SeqsUpTo(LineSet, MaxLines)}
    /\ gz = NoArchive
    /\ console = FALSE
    /\ TestConfig
    /\ NewLogger
    /\ wpc = [w \in Writers |-> "stopped"]
    /\ NoRead

NextRead ==
    \/ CompressLogFile("c1")
    \/ ReadOpen("all", NoFilter)
    \/ ReadMore
    \/ ReadDecode
    \/ ReadAgain

SpecRead == InitRead /\ [][NextRead]_vars

\* The goroutine inside ReadCompressedLogs keeps running.
FairSpecRead == SpecRead /\ WF_vars(ReadMore \/ ReadDecode)

(***************************************************************************)
(* SpecFilter: ReadCompressedLogsFiltered over an archive that is on disk   *)
(* (or is missing, or is no gzip file), with a FilterByLevel or a           *)
(* FilterByTimeRange predicate.                                             *)
(***************************************************************************)
FRec(n, level, ts) == Rec(<<"f", n>>, level, ts)

\* Records that differ in their level, and records that differ in their
\* timestamp: zap's own form, another zone, RFC 3339 with nanoseconds, UTC,
\* a later instant, no fractional digits, a number, none.
FilterRecords ==
    { FRec(1, Str("info"),  Ts(1, 3, "nocolon", 0)),
      FRec(2, Str("error"), Ts(1, 3, "nocolon", 0)),
      FRec(3, Str("ERROR"), Ts(1, 3, "nocolon", 0)),
      FRec(4, Num("7"),     Ts(1, 3, "nocolon", 0)),
      FRec(5, Absent,       Ts(1, 3, "nocolon", 0)),
      FRec(6, Str("info"),  Ts(2, 3, "nocolon", 1)),
      FRec(7, Str("info"),  Ts(1, 9, "colon", 0)),
      FRec(8, Str("info"),  Ts(2, 3, "Z", 0)),
      FRec(9, Str("info"),  Ts(1, 0, "nocolon", 0)),
      FRec(10, Str("info"), [Ts(1, 3, "nocolon", 0) EXCEPT !.t = "number"]),
      FRec(11, Str("info"), NoTs) }

\* The records of TestReadCompressedLogsFiltered's kind: info, warn, error, error.
ScenarioLogs ==
    << FRec(21, Str("info"),  Ts(1, 3, "nocolon", 0)),
       FRec(22, Str("warn"),  Ts(1, 3, "nocolon", 0)),
       FRec(23, Str("error"), Ts(1, 3, "nocolon", 0)),
       FRec(24, Str("error"), Ts(1, 3, "nocolon", 0)) >>

LinesOf(rs) == [i \in 1..Len(rs) |-> ObjLine(rs[i])]
ArchiveOf(d) == [exists |-> TRUE, hdr |-> TRUE, payload |-> d, trl |-> TRUE]

Filters ==
    {LevelFilter(l) : l \in {"info", "error"}}
        \cup {TimeFilter(s, e) : s \in 0..MaxTime, e \in 0..MaxTime}

InitFilter ==
    /\ file = NoFile
    /\ gz \in {NoArchive, EmptyGz, ArchiveOf(LinesOf(ScenarioLogs))}
                \cup {ArchiveOf(LinesOf(rs)) : rs \in SeqsUpTo(FilterRecords, MaxLogs)}
    /\ console = FALSE
    /\ TestConfig
    /\ NewLogger
    /\ wpc = [w \in Writers |-> "stopped"]
    /\ NoRead

ReadCompressedLogsFiltered ==
    \/ \E f \in Filters : ReadOpen("filtered", f)
    \/ ReadMore
    \/ ReadDecode
    \/ FilterStep
    \/ FilterReturn
    \/ ReadAgain

NextFilter == ReadCompressedLogsFiltered

SpecFilter == InitFilter /\ [][NextFilter]_vars

(***************************************************************************)
(* SpecLevel: the goroutines log through LogWithLevel, with any level       *)
(* value, and through Fatal and Panic; nothing runs once the process has    *)
(* ended.                                                                   *)
(***************************************************************************)
InitLevel ==
    /\ file \in {NoFile, FileOf(<<ObjLine(OldRec)>>)}
    /\ gz = NoArchive
    /\ console = FALSE
    /\ TestConfig
    /\ NewLogger
    /\ wpc = [w \in Writers |-> "idle"]
    /\ NoRead

NextLevel ==
    \E w \in Writers :
        \/ LogWithLevel(w) \/ Fatal(w) \/ Panic(w)
        \/ LjLockOpen(w) \/ LjWriteHead(w) \/ LjWriteTail(w)
        \/ OsExit(w) \/ GoPanic(w)

SpecLevel == InitLevel /\ [][NextLevel]_vars

(***************************************************************************)
(* SpecNew: NewLogger is called with a Config whose LogPath names a         *)
(* directory that is missing, cannot be created, exists read-only or        *)
(* exists writable (or with an empty LogPath); if it returns a Logger the   *)
(* goroutines log through it.                                               *)
(***************************************************************************)
\* os.MkdirAll(config.LogPath, 0755): a missing directory is created, an
\* existing one is left as it is, whatever its permissions.
MkdirAll(d) ==
    CASE d = "missing" -> [dir |-> "writable", err |-> "none"]
      [] d = "blocked" -> [dir |-> d, err |-> "failed to create log directory"]
      [] OTHER         -> [dir |-> d, err |-> "none"]

\* NewLogger(config), from the call to its return.
NewLoggerCall ==
    /\ nret = NoRet
    /\ IF logPath = ""
       THEN /\ nret' = Ret("NewLogger", "LogPath is required")
            /\ dir' = dir
       ELSE /\ nret' = Ret("NewLogger", MkdirAll(dir).err)
            /\ dir' = MkdirAll(dir).dir
    /\ UNCHANGED <<fsVars, console, logPath, rotsize, proc, errout, ljOpen, ljMu, mu,
                   writerVars, callerVars, readerVars>>

InitNew ==
    /\ logPath \in {"", "logs"}
    /\ dir \in {"missing", "blocked", "readonly", "writable"}
    /\ file \in IF dir \in {"readonly", "writable"}
                THEN {NoFile, FileOf(<<ObjLine(OldRec)>>)} ELSE {NoFile}
    /\ gz = NoArchive
    /\ console = FALSE
    /\ rotsize = 0
    /\ nret = NoRet
    /\ NewLogger
    /\ wpc = [w \in Writers |-> "idle"]
    /\ NoRead

NextNew ==
    \/ NewLoggerCall
    \/ \E w \in Writers :
          \/ Log(w) \/ LjLockOpen(w) \/ LjWriteHead(w) \/ LjWriteTail(w)
          \/ LjOpenFail(w) \/ Stop(w)

SpecNew == InitNew /\ [][NextNew]_vars

(***************************************************************************)
(* SpecArchive: CompressLogFile is called, by either caller and any number  *)
(* of times, on a source that does not change, while the archive path is    *)
(* empty or holds what an earlier run left; ReadCompressedLogs reads the    *)
(* archive path.                                                            *)
(***************************************************************************)
\* What the archive path holds at the start: nothing, a complete archive of
\* another record, or the beginning of one.
PriorArchives ==
    {NoArchive, ArchiveOf(<<ObjLine(OldRec)>>),
     [ArchiveOf(<<ObjLine(OldRec)>>) EXCEPT !.trl = FALSE]}

InitArchive ==
    /\ file \in {NoFile}
          \cup {FileOf(d) : d \in SeqsUpTo({ObjLine(RecA), ObjLine(RecB)}, MaxLogs)}
    /\ gz \in PriorArchives
    /\ console = FALSE
    /\ TestConfig
    /\ NewLogger
    /\ wpc = [w \in Writers |-> "stopped"]
    /\ NoRead

NextArchive ==
    \/ \E c \in Callers : CompressLogFile(c)
    \/ ReadOpen("all", NoFilter)
    \/ ReadMore
    \/ ReadDecode
    \/ ReadAgain

SpecArchive == InitArchive /\ [][NextArchive]_vars

(***************************************************************************)
(* SpecRotate: one goroutine logs entries with short and with large         *)
(* messages through a Logger made with some Config.RotationSize, while      *)
(* Close is called now and then and lumberjack's cleanup goroutine runs.    *)
(***************************************************************************)
\* Config.RotationSize: unset, 300 bytes, 50 MB.
RotationSizes == {0, 300, 50 * Megabyte}

InitRotate ==
    /\ file \in {NoFile, FileOf(<<ObjLine(OldRec)>>)}
    /\ gz = NoArchive
    /\ console = FALSE
    /\ logPath = "logs"
    /\ rotsize \in RotationSizes
    /\ dir = "writable"
    /\ nret = Ret("NewLogger", "none")
    /\ NewLogger
    /\ wpc = [w \in Writers |-> IF w = "w1" THEN "idle" ELSE "stopped"]
    /\ NoRead

NextRotate ==
    \/ Log("w1") \/ LogLarge("w1")
    \/ LjLockOpen("w1") \/ LjWriteHead("w1") \/ LjWriteTail("w1")
    \/ MillRunOnce
    \/ Close("c1")

SpecRotate == InitRotate /\ [][NextRotate]_vars

(***************************************************************************)
(* What a file holds, line by line: obj says the line is one complete JSON  *)
(* object, json that it is valid JSON at all.                               *)
(***************************************************************************)
RECURSIVE SplitLines(_)
SplitLines(d) ==
    IF d = <<>> THEN <<>>
    ELSE IF d[1].k = "obj"
    THEN <<[obj |-> TRUE, json |-> TRUE, rec |-> d[1].rec]>> \o SplitLines(Tail(d))
    ELSE IF d[1].k = "head" /\ Len(d) >= 2 /\ d[2] = Chunk("tail", d[1].rec)
    THEN <<[obj |-> TRUE, json |-> TRUE, rec |-> d[1].rec]>>
             \o SplitLines(SubSeq(d, 3, Len(d)))
    ELSE <<[obj |-> FALSE, json |-> d[1].k \in {"null", "array"}, rec |-> NilMap]>>
             \o SplitLines(Tail(d))

IsObjLine(l) == l.obj
RecOf(ls) == [i \in 1..Len(ls) |-> ls[i].rec]
\* The records of the well-formed object lines, in file order.
ObjectsOf(d) == RecOf(SelectSeq(SplitLines(d), IsObjLine))

Logged == wcnt["w1"] + wcnt["w2"]
IsOld(c) == c.k = "obj"
OldCount == Len(SelectSeq(file.data, IsOld))

\* The archive a successful CompressLogFile leaves for the file as it is now.
ArchiveOfFile == gz = [exists |-> TRUE, hdr |-> TRUE, payload |-> file.data, trl |-> TRUE]

(***************************************************************************)
(* C1.  When the writer goroutines have logged their records through the    *)
(* one Logger and stopped, the file holds, after what it held before, one   *)
(* complete JSON object line per logged record: every line parses, none is  *)
(* lost, cut or mixed with another, whatever Close and CompressLogFile did  *)
(* meanwhile.                                                               *)
(***************************************************************************)
C1_ConcurrentWritesWhole ==
    AllStopped =>
        LET ls == SplitLines(file.data)
        IN /\ \A i \in 1..Len(ls) : ls[i].obj
           /\ Len(ls) = OldCount + Logged
           /\ \A w \in Writers : \A n \in 1..wcnt[w] :
                 Cardinality({i \in 1..Len(ls) : ls[i].rec.id = <<w, n>>}) = 1

\* Both goroutines logged into a fresh file, the second one first.
C1_Witness ==
    /\ AllStopped
    /\ Logged = MaxRecords
    /\ wcnt["w1"] >= 1 /\ wcnt["w2"] >= 1
    /\ OldCount = 0
    /\ Len(file.data) = 2 * MaxRecords
    /\ file.data[1].rec.id[1] = "w2"

(***************************************************************************)
(* C2.  For every N (0 included): NewLogger, N records, Close,              *)
(* CompressLogFile and ReadCompressedLogs all succeed and the read returns  *)
(* the N records.  Stated on the steps: once logging has stopped and the    *)
(* Logger is closed, CompressLogFile does not fail for a missing file, and  *)
(* reading the archive of the file returns one record per line.             *)
(* (Violated for N = 0 in a fresh directory: no file was ever created.)     *)
(***************************************************************************)
C2_RoundTripAnyN ==
    [][ /\ (AllStopped /\ cret["c1"] = Ret("Close", "none") /\ CompressStat("c1"))
             => cret'["c1"].err # "not_found"
        /\ (AllStopped /\ dec.buf = file.data /\ ReadMore /\ rpc' = "done")
             => (rret'.err = "none" /\ Len(logs) = OldCount + Logged)
      ]_vars

(***************************************************************************)
(* C4.  No step of CompressLogFile, on any outcome, changes the source      *)
(* file: it stays as it was, byte for byte.                                 *)
(***************************************************************************)
C4_CompressKeepsSource == [][CompressLogFile("c1") => file' = file]_vars

\* CompressLogFile has returned nil and the source still holds its lines.
C4_Witness ==
    /\ cret["c1"] = Ret("Compress", "none")
    /\ Len(file.data) >= 2
    /\ ArchiveOfFile

(***************************************************************************)
(* C3.  CompressLogFile then ReadCompressedLogs returns exactly the         *)
(* well-formed JSON object lines the source held, in file order, with       *)
(* duplicates kept.                                                         *)
(***************************************************************************)
C3_ReadReturnsObjectLines ==
    (rpc = "done" /\ rret.err = "none" /\ dec.buf = file.data)
        => logs = ObjectsOf(file.data)

(***************************************************************************)
(* C5.  Reading an archive that holds one line that is no JSON, among       *)
(* well-formed object lines, returns without error the records of the       *)
(* other lines: those before it and those after it.                         *)
(***************************************************************************)
OneMalformed(d) ==
    LET ls == SplitLines(d)
    IN /\ Cardinality({i \in 1..Len(ls) : ~ls[i].json}) = 1
       /\ \A i \in 1..Len(ls) : ls[i].json => ls[i].obj

C5_MalformedLineDropped ==
    (rpc = "more" /\ dec.scanp = 0 /\ OneMalformed(dec.buf))
        ~> (rpc = "done" /\ rret.err = "none" /\ logs = ObjectsOf(dec.buf))

(***************************************************************************)
(* C6.  The decode loop makes progress on every iteration: each Decode,     *)
(* failed or not, moves the decoder forward in its input, so the loop ends. *)
(***************************************************************************)
C6_DecodeLoopProgress == [][ReadDecode => dec'.scanp > dec.scanp]_vars

FilteredDone == rpc = "done" /\ rmode = "filtered"

(***************************************************************************)
(* C7.  ReadCompressedLogsFiltered(path, p) returns the records of          *)
(* ReadCompressedLogs(path) that p accepts, in the same order, duplicates   *)
(* kept; when ReadCompressedLogs fails it returns the error and no record,  *)
(* and p is never called.                                                   *)
(***************************************************************************)
Accepted(r) == ApplyFilter(flt, r)

C7_FilteredIsSubsequence ==
    FilteredDone =>
        IF rret.err = "none"
        THEN filtered = SelectSeq(logs, Accepted)
        ELSE filtered = <<>> /\ evals = 0

\* A read that kept the second of two records and dropped the first.
C7_Witness ==
    /\ FilteredDone /\ rret.err = "none"
    /\ Len(logs) = 2 /\ filtered = <<logs[2]>> /\ logs[1] # logs[2]

(***************************************************************************)
(* C8.  FilterByLevel(L) accepts a record exactly when it has a level key   *)
(* whose value is the string L, letter case included; of records logged at  *)
(* info, warn, error, error the filter "error" returns the two error ones.  *)
(***************************************************************************)
HasLevel(l, r) == r.level.t = "string" /\ r.level.v = l
HasFilterLevel(r) == HasLevel(flt.level, r)

C8_LevelFilterExact ==
    (FilteredDone /\ rret.err = "none" /\ flt.kind = "level")
        => /\ filtered = SelectSeq(logs, HasFilterLevel)
           /\ (logs = ScenarioLogs /\ flt.level = "error")
                 => filtered = <<ScenarioLogs[3], ScenarioLogs[4]>>

C8_Witness ==
    /\ FilteredDone /\ flt = LevelFilter("error")
    /\ logs = ScenarioLogs /\ Len(filtered) = 2

(***************************************************************************)
(* C9.  FilterByTimeRange(start, end) accepts a record whose timestamp      *)
(* parses to t exactly when start < t < end: t = start and t = end are      *)
(* rejected, and with start >= end nothing is accepted.                     *)
(***************************************************************************)
\* A text one of the three layouts parses, and the instant it denotes.
Parseable(ts) ==
    /\ ts.t = "string"
    /\ \/ ts.form \in {"Z", "colon"}
       \/ ts.frac = 3 /\ ts.form = "nocolon"
Instant(ts) == ts.wall - ts.off

HasTime(r) == Parseable(r.timestamp)
StrictlyInside(r) ==
    /\ Parseable(r.timestamp)
    /\ flt.start < Instant(r.timestamp)
    /\ Instant(r.timestamp) < flt.end

C9_TimeRangeExclusive ==
    (FilteredDone /\ rret.err = "none" /\ flt.kind = "time")
        => /\ SelectSeq(filtered, HasTime) = SelectSeq(logs, StrictlyInside)
           /\ flt.start >= flt.end => SelectSeq(filtered, HasTime) = <<>>

\* A record on the upper bound is rejected, the one inside is accepted.
C9_Witness ==
    /\ FilteredDone /\ flt = TimeFilter(0, 2)
    /\ Len(logs) = 2
    /\ HasTime(logs[1]) /\ Instant(logs[1].timestamp) = 2
    /\ HasTime(logs[2]) /\ Instant(logs[2].timestamp) = 1
    /\ filtered = <<logs[2]>>

(***************************************************************************)
(* C10.  A record whose timestamp is missing, is no string, or is parsed    *)
(* by none of the three layouts is rejected by FilterByTimeRange; the       *)
(* filtered read reports no error and still returns the matching records.   *)
(***************************************************************************)
BadTime(r) == ~Parseable(r.timestamp)

C10_BadTimestampRejected ==
    (FilteredDone /\ flt.kind = "time" /\ gz.exists /\ gz.hdr)
        => /\ rret.err = "none"
           /\ SelectSeq(filtered, BadTime) = <<>>
           /\ \A i \in 1..Len(logs) :
                 StrictlyInside(logs[i])
                     => \E j \in 1..Len(filtered) : filtered[j] = logs[i]

\* A record with an unparseable timestamp was dropped, the one after it kept.
C10_Witness ==
    /\ FilteredDone /\ flt = TimeFilter(0, 2)
    /\ Len(logs) = 2
    /\ logs[1].timestamp = Ts(1, 0, "nocolon", 0)
    /\ filtered = <<logs[2]>>

(***************************************************************************)
(* C11.  A call LogWithLevel(level, msg) that has written leaves exactly    *)
(* one record of its own in the file; the record's level is the given       *)
(* level when that is one of debug, info, warn, error, fatal, panic, and    *)
(* info for any other value ("", "INFO", "Error", ...): the level written   *)
(* is always one of the six lower-case names.                               *)
(***************************************************************************)
\* The lines of the file that are the n-th record of goroutine w.
LinesOfCall(w, n) ==
    LET ls == SplitLines(file.data)
    IN {ls[i].rec : i \in {j \in 1..Len(ls) : ls[j].obj /\ ls[j].rec.id = <<w, n>>}}
CountOfCall(w, n) ==
    LET ls == SplitLines(file.data)
    IN Cardinality({j \in 1..Len(ls) : ls[j].obj /\ ls[j].rec.id = <<w, n>>})
Written(w) == wcnt[w] >= 1 /\ wpc[w] \notin {"encoded", "head", "tail"}

C11_LogWithLevelRecord ==
    \A w \in Writers :
        (Written(w) /\ warg[w].fn = "LogWithLevel") =>
            /\ CountOfCall(w, wcnt[w]) = 1
            /\ \A r \in LinesOfCall(w, wcnt[w]) :
                  /\ r.level.t = "string"
                  /\ r.level.v \in Levels
                  /\ r.level.v = IF warg[w].level \in Levels
                                 THEN warg[w].level ELSE "info"

\* One goroutine passed "Error" and its record is at info, the other passed
\* warn and its record is at warn.
C11_Witness ==
    /\ Written("w1") /\ warg["w1"] = [fn |-> "LogWithLevel", level |-> "Error"]
    /\ \E r \in LinesOfCall("w1", wcnt["w1"]) : r.level = Str("info")
    /\ Written("w2") /\ warg["w2"] = [fn |-> "LogWithLevel", level |-> "warn"]
    /\ \E r \in LinesOfCall("w2", wcnt["w2"]) : r.level = Str("warn")

(***************************************************************************)
(* C12.  Fatal and Panic, called directly or through LogWithLevel: when     *)
(* the process ends or the panic is raised the record of the call is in     *)
(* the file, exactly once; the process ends only that way; nothing is       *)
(* written after it has ended; and the call never returns to its caller.    *)
(***************************************************************************)
Escalates(w) == wbuf[w].level.v \in {"fatal", "panic"}
Terminating(w) == wpc[w] \in {"exit", "panic", "panicked"}

C12_WriteBeforeTerminate ==
    [][ /\ \A w \in Writers :
              /\ Terminating(w)' => (CountOfCall(w, wcnt[w]) = 1 /\ Escalates(w))'
              /\ (Escalates(w) /\ wpc[w] # "idle") => wpc'[w] \notin {"idle", "stopped"}
        /\ proc' # "running" => \E w \in Writers : Terminating(w)'
        /\ proc # "running" => file' = file
      ]_vars

\* LogWithLevel(FatalLevel) has ended the process after its record was
\* written; the other goroutine's Panic was recovered earlier.
C12_Witness ==
    /\ proc = "exited"
    /\ wpc["w1"] = "exit" /\ warg["w1"] = [fn |-> "LogWithLevel", level |-> "fatal"]
    /\ CountOfCall("w1", wcnt["w1"]) = 1
    /\ wpc["w2"] = "panicked" /\ warg["w2"].fn = "Panic"
    /\ CountOfCall("w2", wcnt["w2"]) = 1

(***************************************************************************)
(* C13.  NewLogger returns a Logger only when its file destination can be   *)
(* written: with an empty LogPath, a directory that cannot be created, or   *)
(* a directory that exists but is not writable it returns an error and no   *)
(* Logger.                                                                  *)
(***************************************************************************)
C13_NewLoggerFailsFast ==
    nret.op = "NewLogger" =>
        /\ nret.err = "none" <=> (logPath # "" /\ dir = "writable")
        /\ nret.err = "none" => CanOpen

(***************************************************************************)
(* C14.  A logging call whose write the file destination rejected hands     *)
(* its caller an error, and the process keeps running.                      *)
(***************************************************************************)
C14_WriteFailureSurfaced ==
    /\ \A w \in Writers :
          (wpc[w] \in {"idle", "stopped"} /\ werr[w] # "none")
              => (wret[w].op = "Log" /\ wret[w].err # "none")
    /\ proc = "running"

(***************************************************************************)
(* C15.  Whenever Close returns, with nil or with an error, the file        *)
(* writer has been closed: no file handle is left open.                     *)
(***************************************************************************)
C15_CloseReleasesHandle ==
    [][(Close("c1") /\ cpc'["c1"] = "idle") => ~ljOpen']_vars

(***************************************************************************)
(* C16.  Every CompressLogFile call that returns nil, the first or a later  *)
(* one on the same source, leaves at the archive path a complete gzip       *)
(* stream of exactly the source's bytes, once: nothing of what the path     *)
(* held before the call remains.                                            *)
(***************************************************************************)
C16_CompressOverwrites ==
    [][\A c \in Callers :
          (CompressFinish(c) /\ cret'[c].err = "none")
              => gz' = ArchiveOf(file.data)]_vars

\* Both callers have compressed the two-record source with success; the
\* reader still holds what it read from the archive that was there before.
C16_Witness ==
    /\ cret["c1"] = Ret("Compress", "none")
    /\ cret["c2"] = Ret("Compress", "none")
    /\ Len(file.data) = 2
    /\ gz = ArchiveOf(file.data)
    /\ rpc = "done" /\ logs = <<OldRec>>

(***************************************************************************)
(* C17.  CompressLogFile on a missing source file and ReadCompressedLogs    *)
(* on a missing path return an error in which errors.Is finds the           *)
(* not-exist error, and no other failure of theirs does; the failed         *)
(* CompressLogFile creates no archive and leaves an existing one as it was. *)
(***************************************************************************)
C17_NotFoundDistinct ==
    [][ /\ \A c \in Callers :
              /\ (CompressStat(c) /\ ~file.exists)
                    => /\ cret'[c].err # "none" /\ cret'[c].is = "ErrNotExist"
                       /\ cpc'[c] = "idle"
                       /\ gz' = gz
              /\ (CompressLogFile(c) /\ file.exists) => cret'[c].is # "ErrNotExist"
        /\ (rpc = "idle" /\ rpc' # "idle")
              => /\ ~gz.exists => (rpc' = "done" /\ rret'.err # "none"
                                      /\ rret'.is = "ErrNotExist")
                 /\ gz.exists => rret'.is # "ErrNotExist"
      ]_vars

\* Both calls have failed on a missing file, next to an archive that
\* CompressLogFile did not touch.
C17_Witness ==
    /\ ~file.exists
    /\ cret["c1"].op = "Compress" /\ cret["c1"].is = "ErrNotExist"
    /\ gz = ArchiveOf(<<ObjLine(OldRec)>>)
    /\ cret["c2"].op = "Compress" /\ cret["c2"].is = "ErrNotExist"

(***************************************************************************)
(* C19.  Every element ReadCompressedLogs returns is a decoded JSON object  *)
(* (a non-nil map): a top-level value that is valid JSON but no object is   *)
(* skipped, and the records after it are returned all the same.             *)
(***************************************************************************)
AllJson(d) == \A i \in 1..Len(SplitLines(d)) : SplitLines(d)[i].json

C19_OnlyObjectsReturned ==
    (rpc = "done" /\ rret.err = "none") =>
        /\ \A i \in 1..Len(logs) : ~logs[i].nil
        /\ AllJson(dec.buf) => logs = ObjectsOf(dec.buf)

(***************************************************************************)
(* C18.  The active file is rotated when a write would take it beyond       *)
(* Config.RotationSize bytes (and holds something), and only then; with 0  *)
(* the threshold is not configured (no rotation, or the 100 MB default).    *)
(***************************************************************************)
Rotates == Len(backups') > Len(backups)

C18_RotationSizeHonoured ==
    [][\A w \in Writers :
          (LjLockOpen(w) /\ rotsize > 0)
              => (Rotates <=> (fsize > 0 /\ fsize + wlen[w] > rotsize))]_vars

(***************************************************************************)
(* C20.  In every rotation step the active file becomes a backup that       *)
(* holds exactly what the file held and a new empty file is at the path;    *)
(* the entry whose write set off the rotation ends up whole in exactly one  *)
(* file; no step but the cleanup takes anything away from what the files    *)
(* hold; and there are never more than 3 backups.                           *)
(***************************************************************************)
RECURSIVE Flatten(_)
Flatten(bs) == IF bs = <<>> THEN <<>> ELSE bs[1] \o Flatten(Tail(bs))

WholeIn(d, id) ==
    LET ls == SplitLines(d)
    IN Cardinality({j \in 1..Len(ls) : ls[j].obj /\ ls[j].rec.id = id})

RECURSIVE WholeInAll(_, _)
WholeInAll(bs, id) ==
    IF bs = <<>> THEN 0 ELSE WholeIn(bs[1], id) + WholeInAll(Tail(bs), id)

IsPrefix(a, b) == Len(a) <= Len(b) /\ SubSeq(b, 1, Len(a)) = a

RotationSteps ==
    /\ \A w \in Writers :
          /\ (LjLockOpen(w) /\ Rotates)
                => /\ backups' = Append(backups, file.data)
                   /\ file' = FileOf(<<>>)
          /\ LjWriteTail(w)
                => WholeIn(file'.data, <<w, wcnt'[w]>>)
                      + WholeInAll(backups', <<w, wcnt'[w]>>) = 1
    /\ ~MillRunOnce
          => IsPrefix(Flatten(backups) \o file.data, Flatten(backups') \o file'.data)

C20_RotationKeepsRecords ==
    [][RotationSteps /\ Len(backups') <= FileLogger.MaxBackups]_vars

InitMutex ==
    /\ file \in {FileOf(<<>>), FileOf(<<ObjLine(OldRec)>>)}
    /\ gz = NoArchive
    /\ console = FALSE
    /\ TestConfig
    /\ NewLogger
    /\ wpc = [w \in Writers |-> IF w = "w1" THEN "idle" ELSE "stopped"]
    /\ NoRead

NextMutex ==
    \/ Log("w1") \/ LjLockOpen("w1") \/ LjWriteHead("w1") \/ LjWriteTail("w1")
    \/ \E c \in Callers : Close(c)
    \/ \E c \in Callers : CompressLogFile(c)

SpecMutex == InitMutex /\ [][NextMutex]_vars

\* The caller is inside Close or CompressLogFile, past l.mu.Lock().
Inside(c) == cpc[c] # "idle"

\* The next step of w's logging call can be taken.
CanStep(w) ==
    CASE wpc[w] = "idle" /\ Issued < MaxRecords -> ENABLED Log(w)
      [] wpc[w] = "encoded" /\ LjMuFree         -> ENABLED LjLockOpen(w)
      [] wpc[w] = "head"                        -> ENABLED LjWriteHead(w)
      [] wpc[w] = "tail"                        -> ENABLED LjWriteTail(w)
      [] OTHER                                  -> TRUE

(***************************************************************************)
(* C22.  Close and CompressLogFile exclude each other: at most one caller   *)
(* is inside either of them, it is the holder of Logger.mu, and a call      *)
(* starts only when no other is inside.  The logging calls neither wait     *)
(* for Logger.mu nor touch it: each step of an append can be taken while a  *)
(* caller is inside, between CompressLogFile's open and the end of its      *)
(* copy and between Close's sync and its file close alike.                  *)
(***************************************************************************)
C22_MuExcludesCallersOnly ==
    /\ [](/\ ~(Inside("c1") /\ Inside("c2"))
          /\ \A c \in Callers : Inside(c) <=> mu = c
          /\ CanStep("w1"))
    /\ [][ /\ \A c \in Callers :
                 (~Inside(c) /\ Inside(c)') => \A d \in Callers : ~Inside(d)
           /\ (Log("w1") \/ LjLockOpen("w1") \/ LjWriteHead("w1") \/ LjWriteTail("w1"))
                 => mu' = mu
         ]_vars

\* CompressLogFile has returned nil with an archive that ends in the first
\* half of a record (it copied in the middle of an append), and now Close
\* is between its sync and its file close while an append is half-way.
C22_Witness ==
    /\ cret["c2"] = Ret("Compress", "none")
    /\ gz.trl /\ gz.payload # <<>>
    /\ gz.payload[Len(gz.payload)].k = "head"
    /\ cpc["c1"] = "close_file" /\ mu = "c1"
    /\ wpc["w1"] = "tail"
    /\ Len(file.data) > Len(gz.payload) + 1
====
